---- MODULE Spec2Model ----
(***************************************************************************)
(* Model of the vents-ahu client: the frame codec and reply decoder of     *)
(* vents_ahu/utils.py, the register catalog of vents_ahu/constant.py, the  *)
(* transport session of vents_ahu/vents.py and the two threads of the      *)
(* MQTT bridge of vents_mqtt_ha_bridge/__main__.py.                        *)
(*                                                                         *)
(* Bytes are integers 0..255, byte strings are sequences of bytes.         *)
(* Python indices are 0-based: At(s, i) is s[i], Slice(s, a, b) is s[a:b]. *)
(***************************************************************************)
EXTENDS Integers, Sequences, FiniteSets, TLC

VARIABLES
    \* --- decode_reply, one loop iteration per step (utils.py:30-71)
    d_inner,      \* the inner frame handed to decode_reply
    d_pc,         \* "enter" | "loop" | "done"
    d_i,          \* the scan index i
    d_end,        \* end = len(inner) - 2
    d_out,        \* the mapping out
    d_err,        \* the exception decode_reply raised, NoErr when none
    d_entries,    \* history: the entries recorded so far, in scan order
    \* --- one Vents session used by one caller (vents.py)
    s_pc,         \* "idle" | "recv" | "extract" | "validate" | "decode" | "finish"
    s_op,         \* the operation in progress
    s_stage,      \* 1: the operation's own exchange, 2: write_register's read-back
    s_frames,     \* history: the frames sendto() was given during the operation
    s_recvs,      \* history: number of recv() calls during the operation
    s_resp,       \* the datagram recv() returned
    s_inner,      \* extract_inner's result
    s_checked,    \* history: the frame validate() accepted
    s_kv,         \* decode_reply's result
    s_decoded,    \* history: the frames decode_reply was run on
    s_echo,       \* history: what write_register found under its key in the write's reply
    s_result,     \* the operation's outcome
    \* --- the MQTT bridge: polling thread and paho network thread
    b_poll,       \* the polling thread (main): where it is in bootstrap and poll loop
    b_cb,         \* the network thread (paho loop_start): where on_message is
    b_wire,       \* the threads with a request outstanding on the session's socket
    b_last,       \* LAST_STATE: entity name -> the payload cached as last published
    b_pub,        \* the broker: entity name -> the payload last published on its state topic
    b_failed,     \* how many of the polling thread's reads have failed so far
    \* --- the pure functions of the codec, applied one call at a time
    c_fn,         \* the function last applied, "none" before the first call
    c_arg,        \* its arguments
    c_res         \* its result

decVars == <<d_inner, d_pc, d_i, d_end, d_out, d_err, d_entries>>
sessVars == <<s_pc, s_op, s_stage, s_frames, s_recvs, s_resp, s_inner,
              s_checked, s_kv, s_decoded, s_echo, s_result>>
bridgeVars == <<b_poll, b_cb, b_wire, b_last, b_pub, b_failed>>
codecVars == <<c_fn, c_arg, c_res>>
vars == <<decVars, sessVars, bridgeVars, codecVars>>

-----------------------------------------------------------------------------
(* Bounds of the model *)

\* how many entities, in polling order, report more than one value
MaxVarying == 1
\* how many of the polling thread's reads fail in one run of the bridge
MaxFailedReads == 2

\* longest reply payload handed to the step-wise decoder
MaxPayload == 6
\* longest reply payload a device answers with in the session model
MaxReply == 3
\* longest request body handed to _build_frame, apart from the long one
MaxBody == 3
\* length of the long body, whose byte sum exceeds 16 bits
LongBodyLen == 254
\* longest datagram handed to extract_inner
MaxDatagram == 5
\* length of the long password, which one length byte cannot hold
LongPasswdLen == 256

-----------------------------------------------------------------------------
(* Python byte-string helpers *)

At(s, i) == s[i + 1]

Min2(a, b) == IF a < b THEN a ELSE b
Max2(a, b) == IF a > b THEN a ELSE b

\* s[a:b] for 0 <= a, b (clamped to the length, empty when b <= a)
Slice(s, a, b) == SubSeq(s, Min2(a, Len(s)) + 1, Min2(b, Len(s)))

\* s[-2:]
Last2(s) == SubSeq(s, Max2(Len(s) - 1, 1), Len(s))

RECURSIVE SumBytes(_)
SumBytes(s) ==
    IF s = <<>> THEN 0
    ELSE IF Len(s) = 1 THEN s[1]
    ELSE LET h == Len(s) \div 2
         IN  SumBytes(SubSeq(s, 1, h)) + SumBytes(SubSeq(s, h + 1, Len(s)))

\* int.from_bytes(raw, "little", signed=False)
RECURSIVE FromLittle(_)
FromLittle(s) == IF s = <<>> THEN 0 ELSE Head(s) + 256 * FromLittle(Tail(s))

\* int.from_bytes(raw, "big", signed=False)
RECURSIVE FromBig(_)
FromBig(s) ==
    IF s = <<>> THEN 0 ELSE 256 * FromBig(SubSeq(s, 1, Len(s) - 1)) + s[Len(s)]

\* every byte string over alphabet A of length at most n
SeqsUpTo(A, n) == UNION {[1..k -> A] : k \in 0..n}

-----------------------------------------------------------------------------
(* constant.py: header constants and function codes *)

PACKET_PREFIX == <<253, 253>>
PROTOCOL_TYPE == <<3>>
SIZE_ID == <<16>>
PARAMETER_READ == <<1>>
PARAMETER_WRITE_WITH_RESPONSE == <<3>>
RESPONSE == <<6>>

\* the marker byte decode_reply tests for (0xFE)
FE_MARKER == 254

-----------------------------------------------------------------------------
(* Exceptions: the class raised and the message's fixed text *)

NoErr == [cls |-> "", msg |-> ""]
\* a timeout raised as the checksum failure is
ErrTimeout_AsChecksum == [cls |-> "RuntimeError", msg |-> "Checksum mismatch"]

ErrTimeout == [cls |-> "socket.timeout", msg |-> "timed out"]
ErrNoPrefix == [cls |-> "RuntimeError", msg |-> "No PACKET_PREFIX in response"]
ErrChecksum == [cls |-> "RuntimeError", msg |-> "Checksum mismatch"]
ErrIndex == [cls |-> "IndexError", msg |-> "index out of range"]
ErrNotFound == [cls |-> "VentsError", msg |-> "register not found in reply"]
ErrReadOnly == [cls |-> "VentsError", msg |-> "register is read-only"]
ErrBelowMin == [cls |-> "VentsError", msg |-> "value < min"]
ErrAboveMax == [cls |-> "VentsError", msg |-> "value > max"]
ErrWidth == [cls |-> "VentsError", msg |-> "only 1-byte compact writes supported for now"]
ErrNotInt == [cls |-> "VentsError", msg |-> "value must be int for fmt=int"]
ErrBoolCount == [cls |-> "VentsError", msg |-> "bool registers must have count=1"]
ErrStrLen == [cls |-> "VentsError", msg |-> "string length mismatch"]
ErrOverflow == [cls |-> "OverflowError", msg |-> "int does not fit in count unsigned bytes"]
ErrValue == [cls |-> "ValueError", msg |-> "could not convert string to float"]
ErrRawType == [cls |-> "VentsError", msg |-> "fmt='raw' expects bytes-like value"]
ErrRawLen == [cls |-> "VentsError", msg |-> "raw length mismatch"]
ErrFmt == [cls |-> "VentsError", msg |-> "unsupported register fmt"]
ErrCompact == [cls |-> "VentsError", msg |-> "Only 1-byte compact writes supported right now"]
ErrEncode == [cls |-> "UnicodeEncodeError", msg |-> "ordinal not in range(128)"]

-----------------------------------------------------------------------------
(* utils.py: checksum, prefix search, validation *)

u16_le(v) == <<(v % 65536) % 256, (v % 65536) \div 256>>

\* a sum that drops its lowest bit
sum16_DropBit(data) == ((SumBytes(data) \div 2) * 2) % 65536

sum16(data) == SumBytes(data) % 65536

\* a search that returns the highest index where the prefix starts
FindPrefix_Last(resp) ==
    LET hits == {i \in 0..(Len(resp) - 2) :
                    At(resp, i) = PACKET_PREFIX[1] /\ At(resp, i + 1) = PACKET_PREFIX[2]}
    IN  IF hits = {} THEN -1 ELSE CHOOSE i \in hits : \A j \in hits : j <= i

\* bytes.find(PACKET_PREFIX): the lowest index where the prefix starts, or -1
FindPrefix(resp) ==
    LET hits == {i \in 0..(Len(resp) - 2) :
                    At(resp, i) = PACKET_PREFIX[1] /\ At(resp, i + 1) = PACKET_PREFIX[2]}
    IN  IF hits = {} THEN -1 ELSE CHOOSE i \in hits : \A j \in hits : i <= j

extract_inner(resp) ==
    LET i == FindPrefix(resp)
    IN  IF i < 0 THEN [err |-> ErrNoPrefix, inner |-> <<>>]
        ELSE [err |-> NoErr, inner |-> Slice(resp, i, Len(resp))]

\* a validate that accepts every frame
validate_Skip(inner) == NoErr

\* validate(inner): NoErr when it returns, the exception when it raises
validate(inner) ==
    LET expect == FromLittle(Last2(inner))
        calc == sum16(Slice(inner, 2, Len(inner) - 2))
    IN  IF calc # expect THEN ErrChecksum ELSE NoErr

-----------------------------------------------------------------------------
(* utils.py: decode_reply *)

EmptyMap == [k \in {} |-> <<>>]

Put(out, k, v) == [x \in DOMAIN out \cup {k} |-> IF x = k THEN v ELSE out[x]]

\* a length-explicit entry that gives way to what the key already holds
TlvStore_KeepFirst(out, k, val) == IF k \in DOMAIN out THEN out ELSE Put(out, k, val)

\* out[p_low] = inner[val_start:val_end]
TlvStore(out, k, val) == Put(out, k, val)

\* a compact pair that replaces whatever the key already holds
CompactStore_Overwrite(out, k, v) == Put(out, k, <<v>>)

\* out.setdefault(k, bytes([v]))
CompactStore(out, k, v) == IF k \in DOMAIN out THEN out ELSE Put(out, k, <<v>>)

\* the test that selects the two-byte parameter id
TwoByteId(inner, end, i) == i + 3 < end /\ At(inner, i + 3) = 0

\* a compact pair that moves the scan index by one byte only
CompactNext_One(i) == i + 1

\* i += 2
CompactNext(i) == i + 2

Break(i, out) ==
    [brk |-> TRUE, i |-> i, out |-> out, kind |-> "none", key |-> 0, val |-> <<>>,
     keyat |-> i, from |-> i, to |-> i]

\* one iteration of "while i < end" (called with i < end)
DecodeIter(inner, end, i, out) ==
    LET b == At(inner, i)
    IN  IF b = FE_MARKER
        THEN IF i + 1 >= end THEN Break(i, out)
             ELSE LET vlen == At(inner, i + 1)
                      id_size == IF TwoByteId(inner, end, i) THEN 2 ELSE 1
                      p_low == At(inner, i + 2)
                      val_start == i + 2 + id_size
                      val_end == val_start + vlen
                  IN  IF val_end > end THEN Break(i, out)
                      ELSE [brk |-> FALSE, i |-> val_end,
                            out |-> TlvStore(out, p_low, Slice(inner, val_start, val_end)),
                            kind |-> "tlv", key |-> p_low,
                            val |-> Slice(inner, val_start, val_end),
                            keyat |-> i + 2, from |-> val_start, to |-> val_end]
        ELSE IF i + 1 >= end THEN Break(i, out)
             ELSE [brk |-> FALSE, i |-> CompactNext(i),
                   out |-> CompactStore(out, b, At(inner, i + 1)),
                   kind |-> "compact", key |-> b, val |-> <<At(inner, i + 1)>>,
                   keyat |-> i, from |-> i + 1, to |-> i + 2]

RECURSIVE DecodeFrom(_, _, _, _)
DecodeFrom(inner, end, i, out) ==
    IF i >= end THEN out
    ELSE LET r == DecodeIter(inner, end, i, out)
         IN  IF r.brk THEN r.out ELSE DecodeFrom(inner, end, r.i, r.out)

\* pwd_len = inner[pos] with pos = 20 raises IndexError on a frame of 20 bytes or fewer
HeaderIndexable(inner) == Len(inner) > 20

\* pos after "pos += 1 + pwd_len + 1"
PayloadStart(inner) == 20 + 1 + At(inner, 20) + 1

\* a payload end that takes in the checksum trailer
PayloadEnd_WithTrailer(inner) == Len(inner)

PayloadEnd(inner) == Len(inner) - 2

decode_reply(inner) ==
    IF ~HeaderIndexable(inner) THEN [err |-> ErrIndex, kv |-> EmptyMap]
    ELSE [err |-> NoErr,
          kv |-> DecodeFrom(inner, PayloadEnd(inner), PayloadStart(inner), EmptyMap)]

-----------------------------------------------------------------------------
(* vents.py: the session's identity and _build_frame *)

\* "0020003935325105", the device id of main.py, as ASCII
DeviceIdArg == <<48, 48, 50, 48, 48, 48, 51, 57, 51, 53, 51, 50, 53, 49, 48, 53>>

\* the default passwd "1111"
PasswdArg == <<49, 49, 49, 49>>

\* device_id.encode()[:16].ljust(16, b"0")
NormalizeId(id) ==
    LET cut == Slice(id, 0, 16)
    IN  cut \o [k \in 1..(16 - Len(cut)) |-> 48]

\* a checksum taken over the whole buffer, prefix included
AppendChecksum_WithPrefix(buf) == buf \o u16_le(sum16(buf))

\* buf += u16_le(sum16(buf[2:]))
AppendChecksum(buf) == buf \o u16_le(sum16(Slice(buf, 2, Len(buf))))

\* len(self.passwd).to_bytes(1, "big"): OverflowError from 256 bytes on
PasswdLenByte(passwd) ==
    IF Len(passwd) > 255 THEN [err |-> ErrOverflow, raw |-> <<>>]
    ELSE [err |-> NoErr, raw |-> <<Len(passwd)>>]

\* the frame _build_frame returns; where PasswdLenByte raises there is none
_build_frame(device_id, passwd, function, body) ==
    AppendChecksum(PACKET_PREFIX \o PROTOCOL_TYPE \o SIZE_ID \o device_id
                   \o PasswdLenByte(passwd).raw \o passwd \o function \o body)

-----------------------------------------------------------------------------
(* constant.py: Register descriptors and the catalog *)

\* a Register with only the required keys; absent optional keys are the
\* has_* flags (scale is kept in tenths: 0.1 is scale10 = 1, no scale is 10)
Reg(name, parameter, count, fmt) ==
    [name |-> name, parameter |-> parameter, count |-> count, fmt |-> fmt,
     read_only |-> FALSE, has_min |-> FALSE, min |-> 0, has_max |-> FALSE, max |-> 0,
     has_scale |-> FALSE, scale10 |-> 10, endian |-> "big"]

Bounded(r, lo, hi) ==
    [r EXCEPT !.has_min = TRUE, !.min = lo, !.has_max = TRUE, !.max = hi]
ReadOnly(r) == [r EXCEPT !.read_only = TRUE]
LittleEndian(r) == [r EXCEPT !.endian = "little"]
ScaledTenth(r) == [r EXCEPT !.has_scale = TRUE, !.scale10 = 1]

POWER_ON == Bounded(Reg("power_on", <<0, 1>>, 1, "bool"), 0, 1)
MODE == Bounded(Reg("mode", <<0, 14>>, 1, "int"), 0, 3)
SPEED == Bounded(Reg("speed", <<0, 2>>, 1, "int"), 1, 3)
TARGET_TEMP == Bounded(Reg("target_temp", <<0, 24>>, 1, "int"), 15, 30)
SUPPLY_FAN_SPEED_1 == Reg("supply_fan_speed_1", <<0, 58>>, 1, "int")
SUPPLY_FAN_SPEED_2 == Reg("supply_fan_speed_2", <<0, 60>>, 1, "int")
SUPPLY_FAN_SPEED_3 == Reg("supply_fan_speed_3", <<0, 62>>, 1, "int")
EXHAUST_FAN_SPEED_1 == Reg("exhaust_fan_speed_1", <<0, 59>>, 1, "int")
EXHAUST_FAN_SPEED_2 == Reg("exhaust_fan_speed_2", <<0, 61>>, 1, "int")
EXHAUST_FAN_SPEED_3 == Reg("exhaust_fan_speed_3", <<0, 63>>, 1, "int")
WEEKLY_SCHEDULE_MODE == Reg("weekly_schedule_mode", <<0, 114>>, 1, "bool")
BOOST_MODE == ReadOnly(Reg("boost_mode", <<0, 6>>, 1, "bool"))
CURRENT_HUMIDITY == ReadOnly(Reg("current_humidity", <<0, 37>>, 1, "float"))
EXHAUST_IN_TEMPERATURE ==
    LittleEndian(ScaledTenth(ReadOnly(Reg("exhaust_in_temperature", <<0, 31>>, 2, "float"))))
SUPPLY_OUT_TEMPERATURE ==
    LittleEndian(ScaledTenth(ReadOnly(Reg("supply_out_temperature", <<0, 30>>, 2, "float"))))
SUPPLY_IN_TEMPERATURE ==
    LittleEndian(ScaledTenth(ReadOnly(Reg("supply_in_temperature", <<0, 33>>, 2, "float"))))
EXHAUST_OUT_TEMPERATURE ==
    LittleEndian(ScaledTenth(ReadOnly(Reg("exhaust_out_temperature", <<0, 34>>, 2, "float"))))
FAN1_SPEED == LittleEndian(ReadOnly(Reg("fan1_speed", <<0, 74>>, 2, "int")))
FAN2_SPEED == LittleEndian(ReadOnly(Reg("fan2_speed", <<0, 75>>, 2, "int")))
ALARM_INDICATOR == ReadOnly(Reg("alarm_indicator", <<0, 131>>, 1, "bool"))

Catalog ==
    {POWER_ON, MODE, SPEED, TARGET_TEMP, SUPPLY_FAN_SPEED_1, SUPPLY_FAN_SPEED_2,
     SUPPLY_FAN_SPEED_3, EXHAUST_FAN_SPEED_1, EXHAUST_FAN_SPEED_2, EXHAUST_FAN_SPEED_3,
     WEEKLY_SCHEDULE_MODE, BOOST_MODE, CURRENT_HUMIDITY, EXHAUST_IN_TEMPERATURE,
     SUPPLY_OUT_TEMPERATURE, SUPPLY_IN_TEMPERATURE, EXHAUST_OUT_TEMPERATURE,
     FAN1_SPEED, FAN2_SPEED, ALARM_INDICATOR}

\* Register is an open TypedDict: callers may pass descriptors of their own.
\* These cover the shapes the catalog has no writable instance of.
WIDE_COUNTER == LittleEndian(Reg("wide_counter", <<0, 126>>, 2, "int"))
WIDE_SETPOINT == Bounded(Reg("wide_setpoint", <<0, 127>>, 2, "int"), 0, 200)
FINE_SETPOINT == Bounded(ScaledTenth(Reg("fine_setpoint", <<0, 25>>, 1, "float")), 15, 30)
PASSCODE == Reg("passcode", <<0, 125>>, 2, "str")

CallerRegisters == {WIDE_COUNTER, WIDE_SETPOINT, FINE_SETPOINT, PASSCODE}

\* a descriptor without the optional name key, on page 3, whose low address
\* byte is SPEED's
UNNAMED_SETPOINT == Reg("", <<3, 2>>, 1, "int")

\* the registers the session model is driven with: one of each shape of the
\* catalog (the remaining ones differ only in name and address) and the
\* callers' own
SessionRegisters ==
    {POWER_ON, MODE, SPEED, TARGET_TEMP, SUPPLY_FAN_SPEED_1, BOOST_MODE,
     CURRENT_HUMIDITY, EXHAUST_IN_TEMPERATURE, FAN1_SPEED}
    \cup CallerRegisters

\* reg["parameter"][1], the wire key
Low(reg) == At(reg.parameter, 1)

-----------------------------------------------------------------------------
(* Python values handed to and returned by the session *)
(* t is the Python type; n is the number (in tenths when t = "float",     *)
(* 0/1 when t = "bool"); s is the text of a str, as ASCII bytes           *)

IntV(n) == [t |-> "int", n |-> n, s |-> <<>>]
FloatV(tenths) == [t |-> "float", n |-> tenths, s |-> <<>>]
BoolV(b) == [t |-> "bool", n |-> IF b THEN 1 ELSE 0, s |-> <<>>]
StrV(bytes) == [t |-> "str", n |-> 0, s |-> bytes]
NoneV == [t |-> "none", n |-> 0, s |-> <<>>]

\* bool(value)
Truthy(v) == IF v.t \in {"str", "bytes"} THEN v.s # <<>> ELSE v.n # 0

\* the decimal digits of n >= 0, as ASCII
RECURSIVE Digits(_)
Digits(n) == IF n < 10 THEN <<48 + n>> ELSE Digits(n \div 10) \o <<48 + (n % 10)>>

\* str(int)
IntText(n) == IF n < 0 THEN <<45>> \o Digits(-n) ELSE Digits(n)

\* str(value)
Text(v) ==
    CASE v.t = "int" -> IntText(v.n)
      [] v.t = "float" ->
            (IF v.n < 0 THEN <<45>> ELSE <<>>)
            \o Digits((IF v.n < 0 THEN -v.n ELSE v.n) \div 10) \o <<46>>
            \o Digits((IF v.n < 0 THEN -v.n ELSE v.n) % 10)
      [] v.t = "bool" -> IF v.n = 1 THEN <<84, 114, 117, 101>> ELSE <<70, 97, 108, 115, 101>>
      [] OTHER -> v.s

\* round(a / b) for b > 0: to nearest, ties to the even integer
RoundHalfEven(a, b) ==
    LET q == a \div b
        r == a % b
    IN  IF 2 * r < b THEN q
        ELSE IF 2 * r > b THEN q + 1
        ELSE IF q % 2 = 0 THEN q ELSE q + 1

RECURSIVE Pow256(_)
Pow256(k) == IF k = 0 THEN 1 ELSE 256 * Pow256(k - 1)

RECURSIVE BigBytes(_, _)
BigBytes(n, cnt) == IF cnt = 0 THEN <<>> ELSE BigBytes(n \div 256, cnt - 1) \o <<n % 256>>

RECURSIVE LittleBytes(_, _)
LittleBytes(n, cnt) == IF cnt = 0 THEN <<>> ELSE <<n % 256>> \o LittleBytes(n \div 256, cnt - 1)

\* a to_bytes that ignores the byte order
to_bytes_Big(n, cnt, order) ==
    IF n < 0 \/ n >= Pow256(cnt) THEN [err |-> ErrOverflow, raw |-> <<>>]
    ELSE [err |-> NoErr, raw |-> BigBytes(n, cnt)]

\* n.to_bytes(cnt, order, signed=False): OverflowError when n < 0 or n >= 256**cnt
to_bytes(n, cnt, order) ==
    IF n < 0 \/ n >= Pow256(cnt) THEN [err |-> ErrOverflow, raw |-> <<>>]
    ELSE [err |-> NoErr, raw |-> IF order = "little" THEN LittleBytes(n, cnt) ELSE BigBytes(n, cnt)]

\* int.from_bytes(raw, self._byteorder(reg), signed=False)
from_bytes(raw, order) == IF order = "little" THEN FromLittle(raw) ELSE FromBig(raw)

-----------------------------------------------------------------------------
(* vents.py: the value codec *)

\* a byte order that ignores the descriptor's endian key
_byteorder_Default(reg) == "big"

_byteorder(reg) == reg.endian

\* the lowercase hex digits of a byte string, as ASCII
HexDigit(d) == IF d < 10 THEN 48 + d ELSE 87 + d
RECURSIVE Hex(_)
Hex(raw) ==
    IF raw = <<>> THEN <<>>
    ELSE <<HexDigit(Head(raw) \div 16), HexDigit(Head(raw) % 16)>> \o Hex(Tail(raw))

\* ".".join(str(x) for x in raw)
RECURSIVE Dotted(_)
Dotted(raw) ==
    IF raw = <<>> THEN <<>>
    ELSE IF Len(raw) = 1 THEN Digits(raw[1])
    ELSE Digits(raw[1]) \o <<46>> \o Dotted(Tail(raw))

_format_value(reg, raw) ==
    LET val == from_bytes(raw, _byteorder(reg))
    IN  CASE reg.fmt = "int" ->
                IF reg.has_scale THEN IntV((val * reg.scale10) \div 10) ELSE IntV(val)
          [] reg.fmt = "float" ->
                IF reg.has_scale THEN FloatV(val * reg.scale10) ELSE FloatV(val * 10)
          [] reg.fmt = "str" ->
                IF \A k \in 1..Len(raw) : raw[k] < 128 THEN StrV(raw) ELSE StrV(Hex(raw))
          [] reg.fmt = "bool" -> BoolV(val # 0)
          [] reg.fmt = "ip" -> IF Len(raw) = 4 THEN StrV(Dotted(raw)) ELSE StrV(<<>>)
          [] OTHER -> [t |-> "bytes", n |-> 0, s |-> raw]

_coerce_to_bytes(reg, value) ==
    LET cnt == reg.count
    IN  CASE reg.fmt = "int" ->
                IF value.t \notin {"int", "bool"} THEN [err |-> ErrNotInt, raw |-> <<>>]
                ELSE to_bytes(value.n, cnt, _byteorder(reg))
          [] reg.fmt = "float" ->
                IF value.t \in {"str", "bytes", "none"} THEN [err |-> ErrValue, raw |-> <<>>]
                ELSE LET scale10 == IF reg.has_scale THEN reg.scale10 ELSE 10
                         tenths == IF value.t = "float" THEN value.n ELSE 10 * value.n
                     IN  to_bytes(RoundHalfEven(tenths, scale10), cnt, _byteorder(reg))
          [] reg.fmt = "bool" ->
                IF cnt # 1 THEN [err |-> ErrBoolCount, raw |-> <<>>]
                ELSE [err |-> NoErr, raw |-> <<IF Truthy(value) THEN 1 ELSE 0>>]
          [] reg.fmt = "str" ->
                LET b == Text(value)
                IN  IF \E k \in 1..Len(b) : b[k] >= 128 THEN [err |-> ErrEncode, raw |-> <<>>]
                    ELSE IF Len(b) # cnt THEN [err |-> ErrStrLen, raw |-> <<>>]
                    ELSE [err |-> NoErr, raw |-> b]
          [] reg.fmt = "raw" ->
                IF value.t # "bytes" THEN [err |-> ErrRawType, raw |-> <<>>]
                ELSE IF Len(value.s) # cnt THEN [err |-> ErrRawLen, raw |-> <<>>]
                ELSE [err |-> NoErr, raw |-> value.s]
          [] OTHER -> [err |-> ErrFmt, raw |-> <<>>]

-----------------------------------------------------------------------------
(* vents.py: write_register up to the send *)

\* value < bound and value > bound, the bound in engineering units
ValueBelow(value, bound) ==
    IF value.t = "float" THEN value.n < 10 * bound ELSE value.n < bound
ValueAbove(value, bound) ==
    IF value.t = "float" THEN value.n > 10 * bound ELSE value.n > bound

\* step 3 of write_register: NoErr when the value passes
BoundsCheck(reg, value) ==
    IF reg.fmt \in {"int", "float"}
    THEN IF reg.has_min /\ ValueBelow(value, reg.min) THEN ErrBelowMin
         ELSE IF reg.has_max /\ ValueAbove(value, reg.max) THEN ErrAboveMax
         ELSE NoErr
    ELSE NoErr

\* a write that encodes before it looks at read_only
WriteChecks_EncodeFirst(reg, value) ==
    LET enc == _coerce_to_bytes(reg, value)
    IN  IF enc.err # NoErr THEN enc
        ELSE IF reg.read_only THEN [err |-> ErrReadOnly, raw |-> <<>>]
        ELSE IF BoundsCheck(reg, value) # NoErr
             THEN [err |-> BoundsCheck(reg, value), raw |-> <<>>]
        ELSE IF Len(enc.raw) # 1 THEN [err |-> ErrWidth, raw |-> <<>>]
        ELSE enc

\* a write that sends the first byte of a wider payload
WriteChecks_NoWidthCheck(reg, value) ==
    LET enc == _coerce_to_bytes(reg, value)
    IN  IF reg.read_only THEN [err |-> ErrReadOnly, raw |-> <<>>]
        ELSE IF enc.err # NoErr THEN enc
        ELSE IF BoundsCheck(reg, value) # NoErr
             THEN [err |-> BoundsCheck(reg, value), raw |-> <<>>]
        ELSE enc

\* steps 1-4 of write_register: the exception raised before anything is
\* sent, or NoErr and the bytes to send
WriteChecks(reg, value) ==
    LET enc == _coerce_to_bytes(reg, value)
    IN  IF reg.read_only THEN [err |-> ErrReadOnly, raw |-> <<>>]
        ELSE IF enc.err # NoErr THEN enc
        ELSE IF BoundsCheck(reg, value) # NoErr
             THEN [err |-> BoundsCheck(reg, value), raw |-> <<>>]
        ELSE IF Len(enc.raw) # 1 THEN [err |-> ErrWidth, raw |-> <<>>]
        ELSE enc

RECURSIVE Concat(_)
Concat(ss) == IF ss = <<>> THEN <<>> ELSE Head(ss) \o Concat(Tail(ss))

\* a write body that takes the high address byte
RequestBody_HighByte(registers, value) ==
    IF value = NoneV THEN [err |-> NoErr, body |-> Concat(registers)]
    ELSE [err |-> NoErr, body |-> <<At(registers[1], 0), value.n>>]

\* _request's body: the joined register codes of a read, [low, value] of a write
RequestBody(registers, value) ==
    IF value = NoneV THEN [err |-> NoErr, body |-> Concat(registers)]
    ELSE IF ~(0 <= value.n /\ value.n <= 255) THEN [err |-> ErrCompact, body |-> <<>>]
    ELSE [err |-> NoErr, body |-> <<At(registers[1], 1), value.n>>]

-----------------------------------------------------------------------------
(* Reply frames a device (or the network) can hand to the client *)

\* a frame with the client's header layout, an arbitrary password-length byte
\* and password field, the response code and a payload, with a correct checksum
ReplyFrame(pwd_len, pwd, payload) ==
    AppendChecksum(PACKET_PREFIX \o PROTOCOL_TYPE \o SIZE_ID \o NormalizeId(DeviceIdArg)
                   \o <<pwd_len>> \o pwd \o RESPONSE \o payload)

\* checksum-valid frames that end before the password-length byte
ShortFrames ==
    {AppendChecksum(PACKET_PREFIX \o b) : b \in {<<>>, <<0>>, <<3>>, <<3, 16>>, <<3, 16, 48>>}}

\* payload bytes: a key, values, page bytes and the length marker
DecodeBytes == {0, 1, 2, FE_MARKER}

\* (password-length byte, password field) of the replies decoded
DecodeHeaders == {<<4, PasswdArg>>, <<0, <<>> >>, <<200, <<>> >>}

DecodeFrames ==
    {ReplyFrame(h[1], h[2], p) : h \in DecodeHeaders, p \in SeqsUpTo(DecodeBytes, MaxPayload)}
    \cup ShortFrames

-----------------------------------------------------------------------------
(* decode_reply step by step *)

DecInit ==
    /\ d_inner \in DecodeFrames
    /\ d_pc = "enter"
    /\ d_i = 0
    /\ d_end = 0
    /\ d_out = EmptyMap
    /\ d_err = NoErr
    /\ d_entries = <<>>

DecOff ==
    /\ d_inner = <<>>
    /\ d_pc = "off"
    /\ d_i = 0
    /\ d_end = 0
    /\ d_out = EmptyMap
    /\ d_err = NoErr
    /\ d_entries = <<>>

\* utils.py:39-45, the header skip
DecodeEnter ==
    /\ UNCHANGED <<sessVars, bridgeVars, codecVars>>
    /\ d_pc = "enter"
    /\ IF HeaderIndexable(d_inner)
       THEN /\ d_i' = PayloadStart(d_inner)
            /\ d_end' = PayloadEnd(d_inner)
            /\ d_pc' = "loop"
            /\ d_err' = NoErr
       ELSE /\ d_err' = ErrIndex
            /\ d_pc' = "done"
            /\ UNCHANGED <<d_i, d_end>>
    /\ UNCHANGED <<d_inner, d_out, d_entries>>

\* utils.py:46-70, one iteration of the loop
DecodeLoopStep ==
    /\ UNCHANGED <<sessVars, bridgeVars, codecVars>>
    /\ d_pc = "loop"
    /\ d_i < d_end
    /\ LET r == DecodeIter(d_inner, d_end, d_i, d_out)
       IN  IF r.brk
           THEN /\ d_pc' = "done"
                /\ UNCHANGED <<d_i, d_out, d_entries>>
           ELSE /\ d_i' = r.i
                /\ d_out' = r.out
                /\ d_entries' = Append(d_entries,
                                       [kind |-> r.kind, key |-> r.key, val |-> r.val,
                                        keyat |-> r.keyat, from |-> r.from, to |-> r.to])
                /\ d_pc' = "loop"
    /\ UNCHANGED <<d_inner, d_end, d_err>>

\* utils.py:46 and 71, the loop condition fails and out is returned
DecodeReturn ==
    /\ UNCHANGED <<sessVars, bridgeVars, codecVars>>
    /\ d_pc = "loop"
    /\ d_i >= d_end
    /\ d_pc' = "done"
    /\ UNCHANGED <<d_inner, d_i, d_end, d_out, d_err, d_entries>>


-----------------------------------------------------------------------------
(* vents.py: one session, one caller *)

\* self.device_id and self.passwd, set once by __init__
SessionDeviceId == NormalizeId(DeviceIdArg)
SessionPasswd == PasswdArg

Frame(function, body) == _build_frame(SessionDeviceId, SessionPasswd, function, body)

\* what the values written are drawn from: in and out of the catalog's bounds,
\* too wide for one byte, negative, fractional, and of the wrong type
WriteValues ==
    {IntV(n) : n \in {-1, 0, 1, 3, 30, 31, 201, 256}}
    \cup {FloatV(205), FloatV(315), FloatV(3000)}
    \cup {StrV(<<120>>), StrV(<<97, 98>>)}

\* the lists read_registers is called with
ReadLists ==
    {<<>>, <<SPEED>>, <<SPEED, TARGET_TEMP>>,
     <<EXHAUST_IN_TEMPERATURE, EXHAUST_OUT_TEMPERATURE>>,
     <<UNNAMED_SETPOINT, TARGET_TEMP>>}

\* the bytes reply payloads are made of, for a request about the keys lows
ReplyBytes(lows) == lows \cup {0, 1, FE_MARKER}

ReplyPayloads(lows) ==
    SeqsUpTo(ReplyBytes(lows), MaxReply)
    \cup {<<FE_MARKER, 2, k, 0, 220, 0>> : k \in lows}
    \cup {<<FE_MARKER, 1, k, 0, 2>> : k \in lows}

\* a frame whose checksum trailer is off by one
Corrupt(frame) == [frame EXCEPT ![Len(frame)] = (@ + 1) % 256]

\* what recv() can return: well-formed replies, replies behind leading
\* bytes, corrupted replies, datagrams without the prefix, truncated frames
Datagrams(lows) ==
    LET good == {ReplyFrame(Len(SessionPasswd), SessionPasswd, p) : p \in ReplyPayloads(lows)}
        few == {ReplyFrame(Len(SessionPasswd), SessionPasswd, p) :
                    p \in SeqsUpTo(ReplyBytes(lows), 2)}
    IN  good
        \cup {<<0, 7>> \o f : f \in few}
        \cup {Corrupt(f) : f \in few}
        \cup {<<>>, <<253>>, <<1, 2, 3>>}
        \cup ShortFrames

NoOp == [kind |-> "none", regs |-> <<>>, value |-> NoneV]
NoEcho == [seen |-> FALSE, present |-> FALSE, raw |-> <<>>]
NoResult == [status |-> "none", err |-> NoErr, value |-> NoneV]
Returned(v) == [status |-> "value", err |-> NoErr, value |-> v]
Raised(e) == [status |-> "error", err |-> e, value |-> NoneV]

OpLows(op) == {Low(op.regs[k]) : k \in 1..Len(op.regs)}

\* bytes.hex() as a str
HexChar(d) ==
    CASE d = 0 -> "0" [] d = 1 -> "1" [] d = 2 -> "2" [] d = 3 -> "3"
      [] d = 4 -> "4" [] d = 5 -> "5" [] d = 6 -> "6" [] d = 7 -> "7"
      [] d = 8 -> "8" [] d = 9 -> "9" [] d = 10 -> "a" [] d = 11 -> "b"
      [] d = 12 -> "c" [] d = 13 -> "d" [] d = 14 -> "e" [] OTHER -> "f"
RECURSIVE HexText(_)
HexText(raw) ==
    IF raw = <<>> THEN ""
    ELSE HexChar(Head(raw) \div 16) \o HexChar(Head(raw) % 16) \o HexText(Tail(raw))

\* a key that is the descriptor's name, empty when it has none
_key_for_NameOnly(reg) == reg.name

\* reg.get("name") or reg["parameter"].hex()
_key_for(reg) == IF reg.name # "" THEN reg.name ELSE HexText(reg.parameter)

\* a read that answers an absent key with a zero value
ReadOutcome_Default(reg, kv) ==
    IF Low(reg) \notin DOMAIN kv THEN Returned(_format_value(reg, <<0>>))
    ELSE Returned(_format_value(reg, kv[Low(reg)]))

\* read_register after _request returned kv
ReadOutcome(reg, kv) ==
    IF Low(reg) \notin DOMAIN kv THEN Raised(ErrNotFound)
    ELSE Returned(_format_value(reg, kv[Low(reg)]))

\* read_registers after _request returned kv
ReadManyOutcome(regs, kv) ==
    LET present == {k \in 1..Len(regs) : Low(regs[k]) \in DOMAIN kv}
        lastOf(name) == CHOOSE k \in present :
                            /\ _key_for(regs[k]) = name
                            /\ \A j \in present : _key_for(regs[j]) = name => j <= k
    IN  Returned([name \in {_key_for(regs[k]) : k \in present} |->
                    _format_value(regs[lastOf(name)], kv[Low(regs[lastOf(name)])])])

\* a write that reads back again whenever its key is missing
ReadBackNeeded_AnyStage(op, stage, kv) ==
    op.kind = "write" /\ Low(op.regs[1]) \notin DOMAIN kv

\* write_register: "if echo is None", tested once, on the write's own reply
ReadBackNeeded(op, stage, kv) ==
    op.kind = "write" /\ stage = 1 /\ Low(op.regs[1]) \notin DOMAIN kv

SessInit ==
    /\ s_pc = "idle"
    /\ s_op = NoOp
    /\ s_stage = 0
    /\ s_frames = <<>>
    /\ s_recvs = 0
    /\ s_resp = <<>>
    /\ s_inner = <<>>
    /\ s_checked = <<>>
    /\ s_kv = EmptyMap
    /\ s_decoded = <<>>
    /\ s_echo = NoEcho
    /\ s_result = NoResult

\* the caller's frame leaves through sendto(); recv() is next
Send(op, stage, frame, sent) ==
    /\ s_op' = op
    /\ s_stage' = stage
    /\ s_frames' = Append(sent, frame)
    /\ s_pc' = "recv"
    /\ s_resp' = <<>>
    /\ s_inner' = <<>>
    /\ s_checked' = <<>>
    /\ s_kv' = EmptyMap
    /\ s_result' = NoResult

\* the operation ends: it returns or raises, its locals are gone
Finish(result) ==
    /\ s_result' = result
    /\ s_pc' = "done"
    /\ s_resp' = <<>>
    /\ s_inner' = <<>>
    /\ s_checked' = <<>>
    /\ UNCHANGED <<s_op, s_stage, s_frames, s_recvs, s_decoded>>

\* read_register(reg) up to its recv()
Call_read_register ==
    /\ UNCHANGED <<decVars, bridgeVars, codecVars>>
    /\ s_pc = "idle"
    /\ \E reg \in SessionRegisters :
        LET rb == RequestBody(<<reg.parameter>>, NoneV)
        IN  Send([kind |-> "read", regs |-> <<reg>>, value |-> NoneV], 1,
                 Frame(PARAMETER_READ, rb.body), <<>>)
    /\ UNCHANGED <<s_recvs, s_decoded, s_echo>>

\* read_registers(regs) up to its recv()
Call_read_registers ==
    /\ UNCHANGED <<decVars, bridgeVars, codecVars>>
    /\ s_pc = "idle"
    /\ \E regs \in ReadLists :
        LET rb == RequestBody([k \in 1..Len(regs) |-> regs[k].parameter], NoneV)
        IN  Send([kind |-> "read_many", regs |-> regs, value |-> NoneV], 1,
                 Frame(PARAMETER_READ, rb.body), <<>>)
    /\ UNCHANGED <<s_recvs, s_decoded, s_echo>>

\* write_register(reg, value) up to its recv(), or to the exception of steps 1-4
Call_write_register ==
    /\ UNCHANGED <<decVars, bridgeVars, codecVars>>
    /\ s_pc = "idle"
    /\ \E reg \in SessionRegisters, value \in WriteValues :
        LET op == [kind |-> "write", regs |-> <<reg>>, value |-> value]
            c == WriteChecks(reg, value)
            rb == RequestBody(<<reg.parameter>>, IntV(c.raw[1]))
        IN  IF c.err # NoErr
            THEN /\ s_op' = op
                 /\ s_stage' = 1
                 /\ s_frames' = <<>>
                 /\ s_result' = Raised(c.err)
                 /\ s_pc' = "done"
                 /\ s_kv' = EmptyMap
                 /\ UNCHANGED <<s_resp, s_inner, s_checked>>
            ELSE IF rb.err # NoErr
            THEN /\ s_op' = op
                 /\ s_stage' = 1
                 /\ s_frames' = <<>>
                 /\ s_result' = Raised(rb.err)
                 /\ s_pc' = "done"
                 /\ s_kv' = EmptyMap
                 /\ UNCHANGED <<s_resp, s_inner, s_checked>>
            ELSE Send(op, 1, Frame(PARAMETER_WRITE_WITH_RESPONSE, rb.body), <<>>)
    /\ UNCHANGED <<s_recvs, s_decoded, s_echo>>

\* self.sock.recv(4096): a datagram arrives, or the timeout expires
Recv ==
    /\ UNCHANGED <<decVars, bridgeVars, codecVars>>
    /\ s_pc = "recv"
    /\ s_recvs' = s_recvs + 1
    /\ \/ /\ \E resp \in Datagrams(OpLows(s_op)) : s_resp' = resp
          /\ s_pc' = "extract"
          /\ UNCHANGED <<s_op, s_stage, s_frames, s_inner, s_checked, s_kv, s_decoded,
                         s_echo, s_result>>
       \/ /\ s_result' = Raised(ErrTimeout)
          /\ s_pc' = "done"
          /\ UNCHANGED <<s_op, s_stage, s_frames, s_resp, s_inner, s_checked, s_kv,
                         s_decoded, s_echo>>

\* inner = extract_inner(resp)
Extract ==
    /\ UNCHANGED <<decVars, bridgeVars, codecVars>>
    /\ s_pc = "extract"
    /\ LET r == extract_inner(s_resp)
       IN  IF r.err # NoErr
           THEN Finish(Raised(r.err)) /\ UNCHANGED <<s_kv, s_echo>>
           ELSE /\ s_inner' = r.inner
                /\ s_pc' = "validate"
                /\ UNCHANGED <<s_op, s_stage, s_frames, s_recvs, s_resp, s_checked, s_kv,
                               s_decoded, s_echo, s_result>>

\* validate(inner)
Validate ==
    /\ UNCHANGED <<decVars, bridgeVars, codecVars>>
    /\ s_pc = "validate"
    /\ LET e == validate(s_inner)
       IN  IF e # NoErr
           THEN Finish(Raised(e)) /\ UNCHANGED <<s_kv, s_echo>>
           ELSE /\ s_checked' = s_inner
                /\ s_pc' = "decode"
                /\ UNCHANGED <<s_op, s_stage, s_frames, s_recvs, s_resp, s_inner, s_kv,
                               s_decoded, s_echo, s_result>>

\* return decode_reply(inner)
Decode ==
    /\ UNCHANGED <<decVars, bridgeVars, codecVars>>
    /\ s_pc = "decode"
    /\ LET r == decode_reply(s_inner)
       IN  /\ s_decoded' = Append(s_decoded, s_stage)
           /\ IF r.err # NoErr
              THEN /\ s_result' = Raised(r.err)
                   /\ s_pc' = "done"
                   /\ s_resp' = <<>>
                   /\ s_inner' = <<>>
                   /\ s_checked' = <<>>
                   /\ UNCHANGED <<s_op, s_stage, s_frames, s_recvs, s_kv, s_echo>>
              ELSE /\ s_kv' = r.kv
                   /\ s_pc' = "finish"
                   /\ UNCHANGED <<s_op, s_stage, s_frames, s_recvs, s_resp, s_inner,
                                  s_checked, s_echo, s_result>>

\* the caller of _request looks its key up in kv: read_register and
\* read_registers return; write_register returns the echo or reads back
Complete ==
    /\ UNCHANGED <<decVars, bridgeVars, codecVars>>
    /\ s_pc = "finish"
    /\ LET reg == s_op.regs[1]
       IN  IF ReadBackNeeded(s_op, s_stage, s_kv)
           THEN /\ Send(s_op, 2,
                        Frame(PARAMETER_READ, RequestBody(<<reg.parameter>>, NoneV).body),
                        s_frames)
                /\ s_echo' = [seen |-> TRUE, present |-> FALSE, raw |-> <<>>]
                /\ UNCHANGED <<s_recvs, s_decoded>>
           ELSE IF s_op.kind = "write" /\ s_stage = 1
           THEN /\ Finish(Returned(_format_value(reg, s_kv[Low(reg)])))
                /\ s_echo' = [seen |-> TRUE, present |-> TRUE, raw |-> s_kv[Low(reg)]]
                /\ UNCHANGED s_kv
           ELSE IF s_op.kind = "read_many"
           THEN Finish(ReadManyOutcome(s_op.regs, s_kv)) /\ UNCHANGED <<s_kv, s_echo>>
           ELSE Finish(ReadOutcome(reg, s_kv)) /\ UNCHANGED <<s_kv, s_echo>>

\* the caller has the outcome and goes on to its next call
Return ==
    /\ UNCHANGED <<decVars, bridgeVars, codecVars>>
    /\ s_pc = "done"
    /\ s_pc' = "idle"
    /\ s_op' = NoOp
    /\ s_stage' = 0
    /\ s_frames' = <<>>
    /\ s_recvs' = 0
    /\ s_kv' = EmptyMap
    /\ s_decoded' = <<>>
    /\ s_echo' = NoEcho
    /\ s_result' = NoResult
    /\ UNCHANGED <<s_resp, s_inner, s_checked>>

-----------------------------------------------------------------------------
(* vents_mqtt_ha_bridge/__main__.py: the entity table *)

\* VENTS_READ_RETRIES, by default
READ_RETRIES == 1

Ent(name, register, component) ==
    [name |-> name, register |-> register, component |-> component]

ENTITIES ==
    << Ent("power", POWER_ON, "switch"),
       Ent("mode", MODE, "select"),
       Ent("fan_mode", SPEED, "select"),
       Ent("target_temp", TARGET_TEMP, "number"),
       Ent("supply_in", SUPPLY_IN_TEMPERATURE, "sensor"),
       Ent("supply_out", SUPPLY_OUT_TEMPERATURE, "sensor"),
       Ent("exhaust_in", EXHAUST_IN_TEMPERATURE, "sensor"),
       Ent("exhaust_out", EXHAUST_OUT_TEMPERATURE, "sensor"),
       Ent("humidity", CURRENT_HUMIDITY, "sensor"),
       Ent("fan1_speed", FAN1_SPEED, "sensor"),
       Ent("fan2_speed", FAN2_SPEED, "sensor"),
       Ent("boost_mode", BOOST_MODE, "binary_sensor"),
       Ent("alarm", ALARM_INDICATOR, "binary_sensor"),
       Ent("supply_fan_speed_1", SUPPLY_FAN_SPEED_1, "number"),
       Ent("supply_fan_speed_2", SUPPLY_FAN_SPEED_2, "number"),
       Ent("supply_fan_speed_3", SUPPLY_FAN_SPEED_3, "number"),
       Ent("exhaust_fan_speed_1", EXHAUST_FAN_SPEED_1, "number"),
       Ent("exhaust_fan_speed_2", EXHAUST_FAN_SPEED_2, "number"),
       Ent("exhaust_fan_speed_3", EXHAUST_FAN_SPEED_3, "number") >>

\* the sort key of poll_order
PollRank(ent) ==
    IF ent.name \in {"power", "mode", "fan_mode", "target_temp"} THEN 0
    ELSE IF ent.name \in {"supply_in", "supply_out", "exhaust_in", "exhaust_out",
                          "humidity", "fan1_speed", "fan2_speed"} THEN 1
    ELSE 2

\* sorted(ENTITIES, key=...): the positions of ENTITIES in polling order (the
\* sort is stable)
poll_order ==
    LET N == Len(ENTITIES)
        before(a, b) == \/ PollRank(ENTITIES[a]) < PollRank(ENTITIES[b])
                        \/ PollRank(ENTITIES[a]) = PollRank(ENTITIES[b]) /\ a < b
    IN  [k \in 1..N |-> CHOOSE a \in 1..N : Cardinality({b \in 1..N : before(b, a)}) = k - 1]

\* COMMAND_TOPIC_MAP once _publish_discovery has run: the positions of the
\* entities subscribed under "<STATE_BASE>/<name>/set"
\* a command topic for every entity
COMMAND_TOPIC_MAP_All == 1..Len(ENTITIES)

COMMAND_TOPIC_MAP ==
    {k \in 1..Len(ENTITIES) : ENTITIES[k].component \in {"switch", "number", "select"}}

MODE_REVERSE ==
    << <<(<<97, 117, 116, 111>>), 3>>, <<(<<99, 111, 111, 108>>), 2>>,
       <<(<<104, 101, 97, 116>>), 1>>,
       <<(<<118, 101, 110, 116, 105, 108, 97, 116, 105, 111, 110>>), 0>> >>

SPEED_REVERSE ==
    << <<(<<108, 111, 119>>), 1>>, <<(<<109, 101, 100, 105, 117, 109>>), 2>>,
       <<(<<104, 105, 103, 104>>), 3>> >>

reverse_map(ent) ==
    IF ent.name = "mode" THEN MODE_REVERSE
    ELSE IF ent.name = "fan_mode" THEN SPEED_REVERSE
    ELSE <<>>

\* str.lower() on ASCII
Lower(b) == [k \in 1..Len(b) |-> IF b[k] >= 65 /\ b[k] <= 90 THEN b[k] + 32 ELSE b[k]]

IsDigits(b) == b # <<>> /\ \A k \in 1..Len(b) : b[k] >= 48 /\ b[k] <= 57

RECURSIVE DigitsValue(_)
DigitsValue(b) ==
    IF b = <<>> THEN 0 ELSE 10 * DigitsValue(SubSeq(b, 1, Len(b) - 1)) + (b[Len(b)] - 48)

\* raw.lower() in ("1", "true", "on")
SaysOn(b) == Lower(b) \in {<<49>>, <<116, 114, 117, 101>>, <<111, 110>>}

\* _parse_command(ent, raw) for payloads of plain digits or words (no blanks,
\* signs or decimal points): the value, None, or the ValueError of float()
_parse_command(ent, raw) ==
    CASE ent.component = "binary_sensor" -> [err |-> NoErr, value |-> NoneV]
      [] ent.component = "switch" ->
            [err |-> NoErr,
             value |-> IF raw = <<49>> THEN BoolV(TRUE)
                       ELSE IF raw = <<48>> THEN BoolV(FALSE)
                       ELSE BoolV(SaysOn(raw))]
      [] ent.component = "select" ->
            LET rev == reverse_map(ent)
                hits == {k \in 1..Len(rev) : Lower(rev[k][1]) = Lower(raw)}
            IN  [err |-> NoErr,
                 value |-> IF hits = {} THEN StrV(raw)
                           ELSE IntV(rev[CHOOSE k \in hits : \A j \in hits : k <= j][2])]
      [] OTHER ->
            IF ent.register.fmt = "bool" THEN [err |-> NoErr, value |-> BoolV(SaysOn(raw))]
            ELSE IF ~IsDigits(raw) THEN [err |-> ErrValue, value |-> NoneV]
            ELSE IF ent.register.fmt = "float"
                 THEN [err |-> NoErr, value |-> FloatV(10 * DigitsValue(raw))]
            ELSE [err |-> NoErr, value |-> IntV(DigitsValue(raw))]

-----------------------------------------------------------------------------
(* vents_mqtt_ha_bridge/__main__.py: formatting of states *)

\* MODE_MAP and SPEED_MAP: pairs of register value and option
MODE_MAP == [k \in 1..Len(MODE_REVERSE) |-> <<MODE_REVERSE[k][2], MODE_REVERSE[k][1]>>]
SPEED_MAP == [k \in 1..Len(SPEED_REVERSE) |-> <<SPEED_REVERSE[k][2], SPEED_REVERSE[k][1]>>]

mode_map(ent) ==
    IF ent.name = "mode" THEN MODE_MAP
    ELSE IF ent.name = "fan_mode" THEN SPEED_MAP
    ELSE <<>>

\* ent.get("precision"), -1 where the entity has no such key
precision(ent) ==
    IF ent.name \in {"supply_in", "supply_out", "exhaust_in", "exhaust_out"} THEN 1
    ELSE IF ent.component = "number" \/ ent.name \in {"humidity", "fan1_speed", "fan2_speed"}
         THEN 0
    ELSE -1

\* round(float(value), prec) for prec 0 or 1, on values held in tenths
_round_if_needed(ent, value) ==
    LET prec == precision(ent)
        tenths == IF value.t = "float" THEN value.n ELSE 10 * value.n
    IN  IF value.t \in {"float", "int", "bool"} /\ prec >= 0
        THEN IF prec = 0 THEN FloatV(10 * RoundHalfEven(tenths, 10)) ELSE FloatV(tenths)
        ELSE value

_format_state(ent, value) ==
    CASE ent.component = "binary_sensor" ->
            IF Truthy(value) THEN <<79, 78>> ELSE <<79, 70, 70>>
      [] ent.component = "select" ->
            LET map == mode_map(ent)
                convertible == \/ value.t \in {"int", "bool"}
                               \/ value.t = "float" /\ value.n >= 0
                               \/ value.t = "str" /\ IsDigits(value.s)
                key == IF value.t = "float" THEN value.n \div 10
                       ELSE IF value.t = "str" THEN DigitsValue(value.s)
                       ELSE value.n
                hits == {k \in 1..Len(map) : convertible /\ map[k][1] = key}
            IN  IF hits = {} THEN Text(value) ELSE map[CHOOSE k \in hits : TRUE][2]
      [] ent.component = "switch" ->
            IF Truthy(value) THEN <<49>> ELSE <<48>>
      [] OTHER -> Text(_round_if_needed(ent, value))

-----------------------------------------------------------------------------
(* vents_mqtt_ha_bridge/__main__.py: main's polling and the on_message       *)
(* callback, which paho's loop_start() runs on its own thread, both on the   *)
(* one Vents session and the one LAST_STATE dictionary                       *)

\* topics: "<name>/set" for every entity, by its position in ENTITIES, and 0
\* for any other topic
Topics == 0..Len(ENTITIES)

\* the topics messages arrive on: an unknown one, "power/set",
\* "target_temp/set", "supply_in/set" and "boost_mode/set"
MessageTopics == {0, 1, 4, 5, 12}

\* the payloads commands carry: "1", "0", "on", "low", "auto", "30", "31", "x"
CommandPayloads ==
    {<<49>>, <<48>>, <<111, 110>>, <<108, 111, 119>>, <<97, 117, 116, 111>>,
     <<51, 48>>, <<51, 49>>, <<120>>}

\* the errors a read attempt ends in
ReadErrors == {ErrTimeout, ErrChecksum}

\* the place of entity k (a position in ENTITIES) in polling order
PollPlace(k) == CHOOSE j \in 1..Len(poll_order) : poll_order[j] = k

\* the values the device reports for entity k: two for the first MaxVarying
\* entities in polling order, one steady value for the others
ReadValues(k) ==
    LET reg == ENTITIES[k].register
        base == IF reg.has_min THEN reg.min ELSE 1
        one == CASE reg.fmt = "bool" -> BoolV(FALSE)
                 [] reg.fmt = "float" -> FloatV(10 * base + 4)
                 [] OTHER -> IntV(base)
        other == CASE reg.fmt = "bool" -> BoolV(TRUE)
                   [] reg.fmt = "float" -> FloatV(10 * base + 5)
                   [] OTHER -> IntV(base + 1)
    IN  IF PollPlace(k) <= MaxVarying THEN {one, other} ELSE {one}

\* no call of _read_entity_with_retries under way
PollIdle(phase, idx) ==
    [pc |-> "ready", phase |-> phase, idx |-> idx, attempt |-> 0,
     last_exc |-> NoErr, val |-> NoneV, tries |-> <<>>]

CallbackIdle == [pc |-> "idle", ent |-> 0, val |-> NoneV]

BridgeInit ==
    /\ b_poll = PollIdle("bootstrap", 1)
    /\ b_cb = CallbackIdle
    /\ b_wire = {}
    /\ b_last = EmptyMap
    /\ b_pub = EmptyMap
    /\ b_failed = 0

\* the entity the polling thread is at, and the one the callback works on
PollEnt == ENTITIES[poll_order[b_poll.idx]]
CallbackEnt == ENTITIES[b_cb.ent]

\* the polling thread moves on to the next entity of poll_order
NextEntity(p) ==
    IF p.idx < Len(poll_order)
    THEN PollIdle(p.phase, p.idx + 1)
    ELSE PollIdle("loop", 1)

\* _read_entity_with_retries: vents.read_register sends its frame
PollSend ==
    /\ UNCHANGED <<decVars, sessVars, codecVars>>
    /\ b_poll.pc = "ready"
    /\ b_poll' = [b_poll EXCEPT !.pc = "recv"]
    /\ b_wire' = b_wire \cup {"poll"}
    /\ UNCHANGED <<b_cb, b_last, b_pub, b_failed>>

\* a failed attempt that keeps the error of the first failure
PollAfterFailure_KeepFirst(p, exc) ==
    LET q == [p EXCEPT !.last_exc = IF p.last_exc = NoErr THEN exc ELSE p.last_exc]
    IN  IF p.attempt < READ_RETRIES
        THEN [q EXCEPT !.pc = "ready", !.attempt = p.attempt + 1]
        ELSE [q EXCEPT !.pc = "raised"]

\* _read_entity_with_retries after a failed attempt: last_exc = exc, then the
\* next attempt while range(READ_RETRIES + 1) lasts, else raise last_exc
PollAfterFailure(p, exc) ==
    LET q == [p EXCEPT !.last_exc = exc]
    IN  IF p.attempt < READ_RETRIES
        THEN [q EXCEPT !.pc = "ready", !.attempt = p.attempt + 1]
        ELSE [q EXCEPT !.pc = "raised"]

\* _read_entity_with_retries when an attempt succeeds: return val; main then
\* formats it and, in the bootstrap pass, stores it, in the poll loop hands
\* it to _publish_if_changed
PollAfterSuccess(p, val) ==
    [p EXCEPT !.pc = IF p.phase = "bootstrap" THEN "store" ELSE "compare", !.val = val]

\* the polling thread's read_register ends: a value comes back, or the attempt
\* fails
PollRecv ==
    /\ UNCHANGED <<decVars, sessVars, codecVars>>
    /\ b_poll.pc = "recv"
    /\ \/ \E val \in ReadValues(poll_order[b_poll.idx]) :
            /\ b_poll' = [PollAfterSuccess(b_poll, val) EXCEPT
                              !.tries = Append(b_poll.tries, [err |-> NoErr, val |-> val])]
            /\ UNCHANGED b_failed
       \/ \E exc \in ReadErrors :
            /\ b_failed < MaxFailedReads
            /\ b_poll' = [PollAfterFailure(b_poll, exc) EXCEPT
                              !.tries = Append(b_poll.tries, [err |-> exc, val |-> NoneV])]
            /\ b_failed' = b_failed + 1
    /\ b_wire' = b_wire \ {"poll"}
    /\ UNCHANGED <<b_cb, b_last, b_pub>>

\* main's except clause around _read_entity_with_retries: log, go on
PollLogFailure ==
    /\ UNCHANGED <<decVars, sessVars, codecVars>>
    /\ b_poll.pc = "raised"
    /\ b_poll' = NextEntity(b_poll)
    /\ UNCHANGED <<b_cb, b_wire, b_last, b_pub, b_failed>>

\* LAST_STATE.get(name) != state_str
Changed(last, name, state_str) == name \notin DOMAIN last \/ last[name] # state_str

\* _publish_if_changed: the comparison with LAST_STATE
PollCompare ==
    /\ UNCHANGED <<decVars, sessVars, codecVars>>
    /\ b_poll.pc = "compare"
    /\ b_poll' = IF Changed(b_last, PollEnt.name, _format_state(PollEnt, b_poll.val))
                 THEN [b_poll EXCEPT !.pc = "store"]
                 ELSE NextEntity(b_poll)
    /\ UNCHANGED <<b_cb, b_wire, b_last, b_pub, b_failed>>

\* LAST_STATE[name] = state, in _publish_if_changed and in the bootstrap pass
PollStore ==
    /\ UNCHANGED <<decVars, sessVars, codecVars>>
    /\ b_poll.pc = "store"
    /\ b_last' = Put(b_last, PollEnt.name, _format_state(PollEnt, b_poll.val))
    /\ b_poll' = [b_poll EXCEPT !.pc = "publish"]
    /\ UNCHANGED <<b_cb, b_wire, b_pub, b_failed>>

\* publish(state topic, state), in _publish_if_changed and in the bootstrap pass
PollPublish ==
    /\ UNCHANGED <<decVars, sessVars, codecVars>>
    /\ b_poll.pc = "publish"
    /\ b_pub' = Put(b_pub, PollEnt.name, _format_state(PollEnt, b_poll.val))
    /\ b_poll' = NextEntity(b_poll)
    /\ UNCHANGED <<b_cb, b_wire, b_last, b_failed>>

\* _on_message up to write_register's send: whether write_register is called
\* (write), on which entity, and whether it gets as far as sending its frame
Dispatch(topic, raw) ==
    IF topic \notin COMMAND_TOPIC_MAP
    THEN [write |-> FALSE, sent |-> FALSE, ent |-> 0]
    ELSE LET ent == ENTITIES[topic]
             parsed == _parse_command(ent, raw)
         IN  IF parsed.err # NoErr \/ parsed.value = NoneV
             THEN [write |-> FALSE, sent |-> FALSE, ent |-> topic]
             ELSE [write |-> TRUE, ent |-> topic,
                   sent |-> WriteChecks(ent.register, parsed.value).err = NoErr]

\* _on_message: a message arrives; unknown topics, unparsable payloads and
\* writes that write_register refuses end here, the others send their frame
OnMessage ==
    /\ UNCHANGED <<decVars, sessVars, codecVars>>
    /\ b_cb.pc = "idle"
    /\ \E topic \in MessageTopics, raw \in CommandPayloads :
        LET d == Dispatch(topic, raw)
        IN  IF d.sent
            THEN /\ b_cb' = [pc |-> "recv", ent |-> d.ent, val |-> NoneV]
                 /\ b_wire' = b_wire \cup {"cb"}
            ELSE UNCHANGED <<b_cb, b_wire>>
    /\ UNCHANGED <<b_poll, b_last, b_pub, b_failed>>

\* the callback's write_register gets its reply: the echo is there and is the
\* confirmed value, or it is missing and the read-back is sent, or the
\* exchange fails and the callback logs the error
CallbackRecv ==
    /\ UNCHANGED <<decVars, sessVars, codecVars>>
    /\ b_cb.pc = "recv"
    /\ \/ \E val \in ReadValues(b_cb.ent) :
            /\ b_cb' = [b_cb EXCEPT !.pc = "store", !.val = val]
            /\ b_wire' = b_wire \ {"cb"}
       \/ /\ b_cb' = [b_cb EXCEPT !.pc = "recv_back"]
          /\ UNCHANGED b_wire
       \/ /\ b_cb' = CallbackIdle
          /\ b_wire' = b_wire \ {"cb"}
    /\ UNCHANGED <<b_poll, b_last, b_pub, b_failed>>

\* the callback's read-back ends, with the confirmed value or an error
CallbackRecvBack ==
    /\ UNCHANGED <<decVars, sessVars, codecVars>>
    /\ b_cb.pc = "recv_back"
    /\ \/ \E val \in ReadValues(b_cb.ent) : b_cb' = [b_cb EXCEPT !.pc = "store", !.val = val]
       \/ b_cb' = CallbackIdle
    /\ b_wire' = b_wire \ {"cb"}
    /\ UNCHANGED <<b_poll, b_last, b_pub, b_failed>>

\* _on_message: LAST_STATE[ent["name"]] = state_str
CallbackStore ==
    /\ UNCHANGED <<decVars, sessVars, codecVars>>
    /\ b_cb.pc = "store"
    /\ b_last' = Put(b_last, CallbackEnt.name, _format_state(CallbackEnt, b_cb.val))
    /\ b_cb' = [b_cb EXCEPT !.pc = "publish"]
    /\ UNCHANGED <<b_poll, b_wire, b_pub, b_failed>>

\* _on_message: client.publish(state topic, state_str)
CallbackPublish ==
    /\ UNCHANGED <<decVars, sessVars, codecVars>>
    /\ b_cb.pc = "publish"
    /\ b_pub' = Put(b_pub, CallbackEnt.name, _format_state(CallbackEnt, b_cb.val))
    /\ b_cb' = CallbackIdle
    /\ UNCHANGED <<b_poll, b_wire, b_last, b_failed>>

-----------------------------------------------------------------------------
(* Parts of the state a specification does not use stay at these values *)

SessOff ==
    /\ s_pc = "off"
    /\ s_op = NoOp
    /\ s_stage = 0
    /\ s_frames = <<>>
    /\ s_recvs = 0
    /\ s_resp = <<>>
    /\ s_inner = <<>>
    /\ s_checked = <<>>
    /\ s_kv = EmptyMap
    /\ s_decoded = <<>>
    /\ s_echo = NoEcho
    /\ s_result = NoResult

BridgeOff ==
    /\ b_poll = [pc |-> "off", phase |-> "off", idx |-> 0, attempt |-> 0,
                 last_exc |-> NoErr, val |-> NoneV, tries |-> <<>>]
    /\ b_cb = [pc |-> "off", ent |-> 0, val |-> NoneV]
    /\ b_wire = {}
    /\ b_last = EmptyMap
    /\ b_pub = EmptyMap
    /\ b_failed = 0

CodecOff ==
    /\ c_fn = "off"
    /\ c_arg = <<>>
    /\ c_res = <<>>

-----------------------------------------------------------------------------
(* The decoder applied to every frame of DecodeFrames *)

InitDecode == DecInit /\ SessOff /\ BridgeOff /\ CodecOff

NextDecode ==
    \/ DecodeEnter
    \/ DecodeLoopStep
    \/ DecodeReturn

SpecDecode == InitDecode /\ [][NextDecode]_vars

\* decode_reply is straight-line code on one thread: a step that can be taken
\* is taken
SpecDecodeFair == SpecDecode /\ WF_vars(NextDecode)


-----------------------------------------------------------------------------
(* The pure functions of utils.py and of the value codec, one call at a time *)

CodecInit ==
    /\ c_fn = "none"
    /\ c_arg = <<>>
    /\ c_res = <<>>

\* device_id arguments: main.py's, a short one (padded) and a long one (cut)
DeviceIds == {DeviceIdArg, <<65>>, DeviceIdArg \o <<66>>}
\* passwd arguments, already encoded
LongPasswd == [k \in 1..LongPasswdLen |-> 49]
Passwds == {PasswdArg, <<>>, <<49>>, LongPasswd}
FunctionCodes == {PARAMETER_READ, PARAMETER_WRITE_WITH_RESPONSE}
BodyBytes == {0, 1, 255}
LongBody == [k \in 1..LongBodyLen |-> 255]
Bodies == SeqsUpTo(BodyBytes, MaxBody) \cup {LongBody}

\* the offset of the body in a frame built for passwd
BodyOffset(passwd) == 20 + 1 + Len(passwd) + 1

\* the byte values a body byte is replaced with
FlipBytes == {0, 1, 254, 255}

\* datagrams for extract_inner: prefix bytes among other bytes
DatagramBytes == {0, 7, 253}
ExtractInputs == SeqsUpTo(DatagramBytes, MaxDatagram)

\* values handed to the codec: ints, floats (in tenths) and bools
CodecValues ==
    {IntV(n) : n \in {0, 1, 2, 3, 15, 22, 30, 255, 256, 513, 65535}}
    \cup {FloatV(n) : n \in {0, 5, 15, 220, 445, 455, 2550, 2554, 65535}}
    \cup {BoolV(TRUE), BoolV(FALSE)}

\* raw bytes handed to _format_value
RawBytes == {0, 1, 2, 220, 255}
RawInputs(reg) == [1..reg.count -> RawBytes]

\* vents.py:23-34
Call__build_frame ==
    /\ UNCHANGED <<decVars, sessVars, bridgeVars>>
    /\ c_fn = "none"
    /\ \E id \in DeviceIds, passwd \in Passwds, function \in FunctionCodes, body \in Bodies :
         /\ c_arg' = [device_id |-> id, passwd |-> passwd, function |-> function,
                      body |-> body]
         /\ c_res' = IF PasswdLenByte(passwd).err # NoErr
                      THEN [err |-> PasswdLenByte(passwd).err, frame |-> <<>>]
                      ELSE [err |-> NoErr,
                            frame |-> _build_frame(NormalizeId(id), passwd, function, body)]
    /\ c_fn' = "build"

\* one byte of the body of a built frame replaced by a different byte
FlipBodyByte ==
    /\ UNCHANGED <<decVars, sessVars, bridgeVars>>
    /\ c_fn = "build"
    /\ c_res.err = NoErr
    /\ \E k \in 0..(Len(c_arg.body) - 1), b \in FlipBytes :
         /\ At(c_arg.body, k) # b
         /\ c_arg' = [base |-> c_res.frame, at |-> BodyOffset(c_arg.passwd) + k, byte |-> b]
         /\ c_res' = [frame |-> [c_res.frame EXCEPT ![BodyOffset(c_arg.passwd) + k + 1] = b]]
    /\ c_fn' = "flip"

\* utils.py:23-27, on the frame just built or just altered
Call_validate ==
    /\ UNCHANGED <<decVars, sessVars, bridgeVars>>
    /\ (c_fn = "build" /\ c_res.err = NoErr) \/ c_fn = "flip"
    /\ c_arg' = [inner |-> c_res.frame, from |-> c_fn,
                 base |-> IF c_fn = "flip" THEN c_arg.base ELSE c_res.frame]
    /\ c_res' = [err |-> validate(c_res.frame)]
    /\ c_fn' = "validate"

\* utils.py:17-20
Call_extract_inner ==
    /\ UNCHANGED <<decVars, sessVars, bridgeVars>>
    /\ c_fn = "none"
    /\ \E resp \in ExtractInputs :
         /\ c_arg' = [resp |-> resp]
         /\ c_res' = extract_inner(resp)
    /\ c_fn' = "extract"

\* vents.py:95-139
Call__coerce_to_bytes ==
    /\ UNCHANGED <<decVars, sessVars, bridgeVars>>
    /\ c_fn = "none"
    /\ \E reg \in Catalog \cup CallerRegisters, value \in CodecValues :
         /\ c_arg' = [reg |-> reg, value |-> value]
         /\ c_res' = _coerce_to_bytes(reg, value)
    /\ c_fn' = "coerce"

\* vents.py:71-93, on the bytes just encoded
FormatEncoded ==
    /\ UNCHANGED <<decVars, sessVars, bridgeVars>>
    /\ c_fn = "coerce"
    /\ c_res.err = NoErr
    /\ c_arg' = c_arg
    /\ c_res' = [raw |-> c_res.raw, value |-> _format_value(c_arg.reg, c_res.raw)]
    /\ c_fn' = "roundtrip"

\* vents.py:71-93, on raw bytes of the descriptor's count
Call__format_value ==
    /\ UNCHANGED <<decVars, sessVars, bridgeVars>>
    /\ c_fn = "none"
    /\ \E reg \in Catalog \cup CallerRegisters :
         \E raw \in RawInputs(reg) :
            /\ c_arg' = [reg |-> reg, raw |-> raw]
            /\ c_res' = [value |-> _format_value(reg, raw)]
    /\ c_fn' = "format"

InitCodec == CodecInit /\ DecOff /\ SessOff /\ BridgeOff

NextCodec ==
    \/ Call__build_frame
    \/ FlipBodyByte
    \/ Call_validate
    \/ Call_extract_inner
    \/ Call__coerce_to_bytes
    \/ FormatEncoded
    \/ Call__format_value

SpecCodec == InitCodec /\ [][NextCodec]_vars

-----------------------------------------------------------------------------
(* One caller using one session *)

Init == SessInit /\ DecOff /\ BridgeOff /\ CodecOff

Next ==
    \/ Call_read_register
    \/ Call_read_registers
    \/ Call_write_register
    \/ Recv
    \/ Extract
    \/ Validate
    \/ Decode
    \/ Complete
    \/ Return

Spec == Init /\ [][Next]_vars

-----------------------------------------------------------------------------
(* The bridge: main's polling thread and the network thread's callback *)

InitBridge == BridgeInit /\ DecOff /\ SessOff /\ CodecOff

NextBridge ==
    \/ PollSend
    \/ PollRecv
    \/ PollLogFailure
    \/ PollCompare
    \/ PollStore
    \/ PollPublish
    \/ OnMessage
    \/ CallbackRecv
    \/ CallbackRecvBack
    \/ CallbackStore
    \/ CallbackPublish

SpecBridge == InitBridge /\ [][NextBridge]_vars

-----------------------------------------------------------------------------
(* Properties of the session (checked under Spec) *)

\* the frame layout's checksum rule, stated on positions: the last two bytes
\* are the little-endian sum, modulo 65536, of the bytes from offset 2 up to them
RECURSIVE SumRange(_, _, _)
SumRange(f, a, b) ==
    IF a > b THEN 0
    ELSE IF a = b THEN f[a]
    ELSE LET m == (a + b) \div 2
         IN  SumRange(f, a, m) + SumRange(f, m + 1, b)

ChecksumHolds(f) ==
    /\ Len(f) >= 2
    /\ f[Len(f) - 1] + 256 * f[Len(f)] = SumRange(f, 3, Len(f) - 2) % 65536

\* inner is resp from its first occurrence of FD FD on
SuffixAtFirstPrefix(resp, inner) ==
    \E i \in 1..(Len(resp) - 1) :
        /\ resp[i] = 253 /\ resp[i + 1] = 253
        /\ \A j \in 1..(i - 1) : ~(resp[j] = 253 /\ resp[j + 1] = 253)
        /\ inner = SubSeq(resp, i, Len(resp))

IsWrite == s_op.kind = "write"
WriteReg == s_op.regs[1]
Completed == s_pc = "done"

\* C1: in every exchange the decoder runs only on the inner frame that
\* extract_inner found behind the prefix and validate accepted; an exchange
\* that fails at either step ends in that error, with nothing decoded from its
\* datagram and no value produced.
C1_DecodeOnlyValidated ==
    /\ s_pc \in {"decode", "finish"}
        => /\ SuffixAtFirstPrefix(s_resp, s_inner)
           /\ ChecksumHolds(s_inner)
           /\ s_checked = s_inner
    /\ Len(s_decoded) <= s_recvs
    /\ (Completed /\ s_result.err \in {ErrNoPrefix, ErrChecksum})
        => /\ s_result.status = "error"
           /\ s_result.value = NoneV
           /\ \A n \in 1..Len(s_decoded) : s_decoded[n] # s_stage
    /\ (s_pc \in {"extract", "validate"})
        => \A n \in 1..Len(s_decoded) : s_decoded[n] # s_stage

\* the decoder is about to run on a frame found behind leading bytes
C1_Witness ==
    /\ s_pc = "decode"
    /\ Len(s_resp) > Len(s_inner)
    /\ s_checked = s_inner

\* C3: write_register on a read-only descriptor raises the read-only error
\* before anything is sent, whatever the value.
C3_ReadOnlyFirst ==
    (IsWrite /\ WriteReg.read_only)
        => /\ Completed
           /\ s_result = Raised(ErrReadOnly)
           /\ s_frames = <<>>
           /\ s_recvs = 0

\* a read-only write refused although its value could not have been encoded
C3_Witness ==
    /\ IsWrite /\ WriteReg.read_only /\ Completed
    /\ s_result = Raised(ErrReadOnly)
    /\ _coerce_to_bytes(WriteReg, s_op.value).err # NoErr

\* the value is a number of the descriptor's kind outside its declared bounds
OutOfBounds(reg, v) ==
    /\ reg.fmt \in {"int", "float"}
    /\ v.t = reg.fmt \/ (reg.fmt = "float" /\ v.t = "int")
    /\ \/ reg.has_min /\ ValueBelow(v, reg.min)
       \/ reg.has_max /\ ValueAbove(v, reg.max)

\* C4: a write to a writable numeric descriptor of a value below min or above
\* max, values that do not fit in count bytes included, raises the
\* out-of-range error and sends nothing.
C4_OutOfRangeAlways ==
    (IsWrite /\ ~WriteReg.read_only /\ OutOfBounds(WriteReg, s_op.value))
        => /\ Completed
           /\ s_result.err \in {ErrBelowMin, ErrAboveMax}
           /\ s_frames = <<>>

\* the write's value encodes to a payload that is not one byte long
WidePayload ==
    /\ IsWrite /\ ~WriteReg.read_only
    /\ _coerce_to_bytes(WriteReg, s_op.value).err = NoErr
    /\ Len(_coerce_to_bytes(WriteReg, s_op.value).raw) # 1

\* C5 as stated: every write whose encoded value is not one byte long raises
\* the unsupported-width error and sends nothing.
C5_WidthErrorAlways ==
    /\ WidePayload => (Completed /\ s_result = Raised(ErrWidth) /\ s_frames = <<>>)
    /\ (IsWrite /\ s_frames # <<>>)
        => Len(_coerce_to_bytes(WriteReg, s_op.value).raw) = 1

\* C5 as the code has it: a write whose encoded value is not one byte long
\* sends nothing; it raises the unsupported-width error when the value passes
\* the bounds check and the out-of-range error when it does not. A write
\* frame is sent only for a one-byte payload.
C5_WidthErrorAfterBounds ==
    /\ WidePayload
        => /\ Completed
           /\ s_frames = <<>>
           /\ s_result = IF BoundsCheck(WriteReg, s_op.value) = NoErr
                         THEN Raised(ErrWidth)
                         ELSE Raised(BoundsCheck(WriteReg, s_op.value))
    /\ (IsWrite /\ s_frames # <<>>)
        => /\ Len(_coerce_to_bytes(WriteReg, s_op.value).raw) = 1
           /\ Len(s_frames[1]) = Len(Frame(PARAMETER_WRITE_WITH_RESPONSE, <<0, 0>>))

\* a two-byte payload, within bounds, refused for its width
C5_Witness ==
    /\ WidePayload /\ Completed
    /\ WriteReg.has_max
    /\ s_result = Raised(ErrWidth)

\* the write frame and the read frame of the descriptor being written
ExpectedWriteFrame ==
    Frame(<<3>>, <<WriteReg.parameter[2], _coerce_to_bytes(WriteReg, s_op.value).raw[1]>>)
ExpectedReadFrame == Frame(<<1>>, WriteReg.parameter)

\* C6: a write that passes its checks sends one 0x03 frame with body
\* [low address byte, value byte]; when the decoded reply holds that key the
\* decoded echo is returned with no further exchange; when it does not,
\* exactly one read of the same descriptor follows and its outcome is the
\* outcome of the write.
C6_EchoOrReadBack ==
    (IsWrite /\ s_frames # <<>>)
        => /\ s_frames[1] = ExpectedWriteFrame
           /\ s_stage = 2 <=> Len(s_frames) = 2
           /\ Len(s_frames) = 2 => s_frames[2] = ExpectedReadFrame
           /\ (Completed /\ s_echo.seen /\ s_echo.present)
                => /\ Len(s_frames) = 1
                   /\ s_recvs = 1
                   /\ s_result = Returned(_format_value(WriteReg, s_echo.raw))
           /\ (s_echo.seen /\ ~s_echo.present)
                => /\ Len(s_frames) = 2
                   /\ s_stage = 2
           /\ (Completed /\ s_echo.seen /\ ~s_echo.present /\ s_decoded = <<1, 2>>)
                => s_result = IF s_result.err = ErrIndex
                              THEN Raised(ErrIndex)
                              ELSE IF WriteReg.parameter[2] \in DOMAIN s_kv
                              THEN Returned(_format_value(WriteReg, s_kv[WriteReg.parameter[2]]))
                              ELSE Raised(ErrNotFound)
           /\ (Completed /\ s_echo.seen /\ ~s_echo.present /\ s_decoded = <<1>>)
                => s_result \in {Raised(ErrTimeout), Raised(ErrNoPrefix), Raised(ErrChecksum)}
           /\ (Completed /\ ~s_echo.seen) => s_result.status = "error"

\* a write whose reply lacked the key and whose read-back returned a value
C6_Witness ==
    /\ IsWrite /\ Completed
    /\ s_echo.seen /\ ~s_echo.present
    /\ Len(s_frames) = 2
    /\ s_result.status = "value"

\* the most datagrams an operation may send
SendLimit == IF IsWrite THEN 2 ELSE 1

\* C7: nothing is retried: a read sends exactly one datagram and receives at
\* most once, a write sends at most two, and an operation that failed with a
\* timeout, missing prefix, checksum or register-not-found error sent nothing
\* after the receive that failed.
C7_NoRetry ==
    /\ Len(s_frames) <= SendLimit
    /\ s_recvs <= Len(s_frames)
    /\ s_op.kind \in {"read", "read_many"} => (Len(s_frames) = 1 /\ s_recvs <= 1)
    /\ (Completed /\ s_result.err \in {ErrTimeout, ErrNoPrefix, ErrChecksum, ErrNotFound})
        => s_recvs = Len(s_frames)
    /\ s_pc \in {"extract", "validate", "decode", "finish"} => s_recvs = Len(s_frames)

\* a write that failed on its read-back, two datagrams in all
C7_Witness ==
    /\ IsWrite /\ Completed
    /\ Len(s_frames) = 2
    /\ s_result = Raised(ErrNotFound)

\* the key the result map is to have for a descriptor: its name, or the hex of
\* its address when it has none
StatedKey(reg) == IF reg = UNNAMED_SETPOINT THEN "0302" ELSE reg.name

\* the addresses of the descriptors, one after the other
RECURSIVE Addresses(_)
Addresses(regs) ==
    IF regs = <<>> THEN <<>>
    ELSE <<regs[1].parameter[1], regs[1].parameter[2]>> \o Addresses(Tail(regs))

\* the reply of the operation's exchange was decoded into s_kv
ReplyDecoded == Completed /\ s_decoded # <<>> /\ s_result.err # ErrIndex

C17_ReadNotFound ==
    s_op.kind = "read"
        => /\ ReplyDecoded
                => /\ s_decoded = <<1>>
                   /\ s_result =
                        IF s_op.regs[1].parameter[2] \in DOMAIN s_kv
                        THEN Returned(_format_value(s_op.regs[1], s_kv[s_op.regs[1].parameter[2]]))
                        ELSE Raised(ErrNotFound)
           /\ (Completed /\ s_result.status = "value")
                => s_op.regs[1].parameter[2] \in DOMAIN s_kv

\* a reply that decoded to entries, none of them the key asked for
C17_Witness ==
    /\ s_op.kind = "read"
    /\ ReplyDecoded
    /\ DOMAIN s_kv # {}
    /\ s_result = Raised(ErrNotFound)

\* C20: when recv() times out the operation ends there with the timeout
\* failure and no value; that failure arises nowhere else and is told apart
\* from the missing-prefix, checksum and register-not-found failures by its
\* class.
C20_TimeoutDistinct ==
    [][/\ (s_pc = "recv" /\ s_pc' = "done")
            => /\ s_result' = Raised(ErrTimeout)
               /\ s_result'.value = NoneV
               /\ s_result'.err.cls \notin {ErrNoPrefix.cls, ErrChecksum.cls, ErrNotFound.cls}
               /\ s_frames' = s_frames
               /\ s_decoded' = s_decoded
       /\ (s_result'.err = ErrTimeout /\ s_result.err # ErrTimeout)
            => s_pc = "recv" /\ s_resp' = s_resp
       /\ (s_pc' = "done" /\ s_pc \in {"extract", "validate", "finish"})
            => s_result'.err.cls # ErrTimeout.cls]_vars

\* a write whose read-back timed out
C20_Witness ==
    /\ IsWrite /\ Completed
    /\ s_recvs = 2
    /\ s_result = Raised(ErrTimeout)

-----------------------------------------------------------------------------
(* Properties of decode_reply (checked under SpecDecode) *)

Decoded == d_pc = "done" /\ d_err = NoErr

\* positions in d_entries of the entries of one kind recorded for key k
EntriesFor(kind, k) ==
    {n \in 1..Len(d_entries) : d_entries[n].kind = kind /\ d_entries[n].key = k}

FirstOf(S) == CHOOSE n \in S : \A m \in S : n <= m
LastOf(S) == CHOOSE n \in S : \A m \in S : m <= n

EntryKeys == {d_entries[n].key : n \in 1..Len(d_entries)}

\* C8: when the payload holds a length-explicit entry and a compact pair for
\* the same key, in either order, the result for that key is the value bytes
\* of the length-explicit entry.
C8_TlvWinsOverCompact ==
    Decoded =>
        \A k \in EntryKeys :
            (EntriesFor("tlv", k) # {} /\ EntriesFor("compact", k) # {})
                => /\ k \in DOMAIN d_out
                   /\ d_out[k] = d_entries[LastOf(EntriesFor("tlv", k))].val

\* a decoded payload where a compact pair follows a length-explicit entry for
\* the same key and carries different bytes
C8_Witness ==
    /\ Decoded
    /\ \E k \in EntryKeys :
        \E n \in EntriesFor("tlv", k), m \in EntriesFor("compact", k) :
            /\ n < m
            /\ d_entries[n].val # d_entries[m].val
            /\ Cardinality(EntriesFor("tlv", k)) = 1

\* C9: with two or more compact pairs for a key and no length-explicit entry
\* for it, the result for that key is the value byte of the first compact pair.
C9_FirstCompactWins ==
    Decoded =>
        \A k \in EntryKeys :
            (EntriesFor("tlv", k) = {} /\ Cardinality(EntriesFor("compact", k)) >= 2)
                => /\ k \in DOMAIN d_out
                   /\ d_out[k] = d_entries[FirstOf(EntriesFor("compact", k))].val

\* a decoded payload with two compact pairs for one key that disagree
C9_Witness ==
    /\ Decoded
    /\ \E k \in EntryKeys :
        /\ EntriesFor("tlv", k) = {}
        /\ \E n, m \in EntriesFor("compact", k) :
              n < m /\ d_entries[n].val # d_entries[m].val

\* C10: decode_reply never raises on a checksum-valid inner frame, however
\* short: it returns a mapping holding exactly the entries fully parsed.
C10_DecodeNeverRaises ==
    (d_pc = "done" /\ validate(d_inner) = NoErr)
        => /\ d_err = NoErr
           /\ DOMAIN d_out = EntryKeys

\* the scan index is on a length marker that has its length byte
AtLengthMarker ==
    /\ d_pc = "loop"
    /\ d_i < d_end
    /\ At(d_inner, d_i) = FE_MARKER
    /\ d_i + 1 < d_end

\* the stated rule for the two-byte address, with the page byte read at index
\* page: the value region after a two-byte address fits, and the page byte is
\* one of 0..3
StatedTwoByte(page) ==
    /\ d_i + 4 + At(d_inner, d_i + 1) <= d_end
    /\ At(d_inner, page) \in 0..3

\* the step the stated rule prescribes once the address width is chosen
StatedStep(two) ==
    LET vlen == At(d_inner, d_i + 1)
        val_start == d_i + 2 + (IF two THEN 2 ELSE 1)
        val_end == val_start + vlen
    IN  IF val_end > d_end
        THEN d_pc' = "done" /\ d_out' = d_out
        ELSE /\ d_pc' = "loop"
             /\ d_i' = val_end
             /\ d_out' = Put(d_out, At(d_inner, d_i + 2), Slice(d_inner, val_start, val_end))

\* C11: at a length-explicit entry the two-byte address is used exactly when
\* the value region behind it fits in the payload and the page byte is one of
\* 0, 1, 2, 3, and the one-byte address otherwise; the key is the first
\* address byte and the value the vlen bytes behind the address. The page byte
\* is taken either as the second address byte or as the byte behind it: the
\* step has to agree with one of the two readings.
C11_TwoByteIffFitsAndPage ==
    [][AtLengthMarker =>
         \E page \in {d_i + 3, d_i + 4} : StatedStep(StatedTwoByte(page))]_vars

RegionFrom == 20 + 1 + d_inner[21] + 1
RegionTo == Len(d_inner) - 2

\* C22: every key and every value byte decode_reply records comes from the
\* payload region, behind the response-code byte and before the two checksum
\* bytes; no header byte and no checksum byte becomes a key or part of a
\* value, whatever the password-length byte and the payload.
C22_EntriesFromPayload ==
    d_pc \in {"loop", "done"} /\ d_err = NoErr
        => /\ \A n \in 1..Len(d_entries) :
                LET e == d_entries[n]
                IN  /\ RegionFrom <= e.keyat /\ e.keyat < RegionTo
                    /\ e.key = d_inner[e.keyat + 1]
                    /\ RegionFrom <= e.from /\ e.from <= e.to /\ e.to <= RegionTo
                    /\ e.keyat < e.from
                    /\ e.val = [k \in 1..(e.to - e.from) |-> d_inner[e.from + k]]
           /\ \A k \in DOMAIN d_out :
                \E n \in 1..Len(d_entries) :
                    d_entries[n].key = k /\ d_entries[n].val = d_out[k]

\* a reply without password bytes decoded up to the last payload byte, a
\* length-explicit entry among its entries
C22_Witness ==
    /\ Decoded
    /\ d_inner[21] = 0
    /\ \E n, m \in 1..Len(d_entries) :
          /\ d_entries[n].kind = "tlv" /\ d_entries[n].val # <<>>
          /\ d_entries[m].to = RegionTo

-----------------------------------------------------------------------------
(* Properties of the pure functions (checked under SpecCodec) *)

\* the bytes the checksum covers add up to more than 16 bits hold
SumWraps(f) == SumRange(f, 3, Len(f) - 2) >= 65536

\* C13: for every device id, password, function code and body the frame
\* _build_frame returns passes validate: its last two bytes are the
\* little-endian sum, modulo 65536, of the bytes from offset 2 up to them.
C13_BuiltFramePasses ==
    /\ (c_fn = "build" /\ c_res.err = NoErr) => ChecksumHolds(c_res.frame)
    /\ (c_fn = "validate" /\ c_arg.from = "build") => c_res.err = NoErr

\* a built frame whose byte sum wrapped around was accepted
C13_Witness ==
    /\ c_fn = "validate"
    /\ c_arg.from = "build"
    /\ SumWraps(c_arg.inner)
    /\ c_res.err = NoErr

\* C14: a frame that passes validate no longer does once a single byte of its
\* body is replaced by a different byte: validate raises the checksum error.
C14_FlipDetected ==
    (c_fn = "validate" /\ c_arg.from = "flip" /\ validate(c_arg.base) = NoErr)
        => c_res.err = ErrChecksum

\* a body byte of an accepted frame, one whose byte sum wrapped around, was
\* replaced and validate raised
C14_Witness ==
    /\ c_fn = "validate"
    /\ c_arg.from = "flip"
    /\ validate(c_arg.base) = NoErr
    /\ SumWraps(c_arg.base)
    /\ c_arg.inner # c_arg.base
    /\ c_res.err = ErrChecksum

\* the device-id field as stated: the identifier cut to 16 bytes, or padded
\* on its left with ASCII '0' up to 16 bytes
StatedIdField(id) ==
    IF Len(id) >= 16 THEN SubSeq(id, 1, 16)
    ELSE [k \in 1..(16 - Len(id)) |-> 48] \o id

\* C21: for every device identity and password the built frame has the fixed
\* layout: FD FD at offset 0, the protocol type at 2, the size class at 3, a
\* 16-byte device-id field at 4 (the identifier cut to 16 bytes or left-padded
\* with '0'), the password length n at 20, the password, the function code at
\* 21 + n, the body and the two checksum bytes; and building never fails.
C21_FrameLayout ==
    c_fn = "build"
        => /\ c_res.err = NoErr
           /\ LET f == c_res.frame
                  n == Len(c_arg.passwd)
                  m == Len(c_arg.body)
              IN  /\ Len(f) = 21 + n + 1 + m + 2
                  /\ SubSeq(f, 1, 4) = <<253, 253, 3, 16>>
                  /\ SubSeq(f, 5, 20) = StatedIdField(c_arg.device_id)
                  /\ f[21] = n
                  /\ SubSeq(f, 22, 21 + n) = c_arg.passwd
                  /\ <<f[22 + n]>> = c_arg.function
                  /\ SubSeq(f, 23 + n, 22 + n + m) = c_arg.body
                  /\ ChecksumHolds(f)

HasPrefix(resp) ==
    \E i \in 1..(Len(resp) - 1) : resp[i] = 253 /\ resp[i + 1] = 253

\* C15: extract_inner returns the datagram from the first occurrence of
\* FD FD on, whatever precedes it, and raises the no-prefix error exactly when
\* the datagram holds no occurrence.
C15_FirstPrefixSuffix ==
    c_fn = "extract"
        => /\ c_res.err = NoErr <=> HasPrefix(c_arg.resp)
           /\ c_res.err = NoErr => SuffixAtFirstPrefix(c_arg.resp, c_res.inner)
           /\ c_res.err # NoErr => c_res.err = ErrNoPrefix

\* two leading bytes, and a second occurrence of the prefix behind the first
C15_Witness ==
    /\ c_fn = "extract"
    /\ c_res.err = NoErr
    /\ Len(c_arg.resp) - Len(c_res.inner) >= 2
    /\ Len(c_res.inner) >= 3
    /\ c_res.inner[3] = 253

\* the value is of the descriptor's kind, within its declared bounds and
\* within what count unsigned bytes hold
InRange(reg, v) ==
    CASE reg.fmt = "bool" -> v.t = "bool"
      [] reg.fmt = "int" ->
            /\ v.t = "int"
            /\ BoundsCheck(reg, v) = NoErr
            /\ 0 <= v.n /\ v.n <= Pow256(reg.count) - 1
      [] reg.fmt = "float" ->
            /\ v.t \in {"float", "int"}
            /\ BoundsCheck(reg, v) = NoErr
            /\ 0 <= v.n
            /\ (IF v.t = "float" THEN v.n ELSE 10 * v.n)
                   <= (Pow256(reg.count) - 1) * reg.scale10
      [] OTHER -> FALSE

\* a number in tenths
Tenths(v) == IF v.t = "float" THEN v.n ELSE 10 * v.n

Abs(n) == IF n < 0 THEN -n ELSE n

\* C18: for a numeric or boolean descriptor of the catalog and a value in
\* range, encoding succeeds and decoding the encoded bytes gives the value
\* back within one unit of the scale; a boolean true encodes to the byte 01
\* and the byte 01 decodes to true.
C18_RoundTrip ==
    /\ (c_fn = "coerce" /\ c_arg.reg \in Catalog /\ InRange(c_arg.reg, c_arg.value))
        => c_res.err = NoErr
    /\ (c_fn = "roundtrip" /\ c_arg.reg \in Catalog /\ InRange(c_arg.reg, c_arg.value))
        => /\ c_res.value.t = c_arg.reg.fmt
           /\ c_arg.reg.fmt \in {"int", "bool"} => c_res.value.n = c_arg.value.n
           /\ c_arg.reg.fmt = "float"
                => Abs(c_res.value.n - Tenths(c_arg.value)) <= c_arg.reg.scale10
           /\ c_arg.value = BoolV(TRUE)
                => c_res.raw = <<1>> /\ c_res.value = BoolV(TRUE)
    /\ (c_fn = "format" /\ c_arg.reg.fmt = "bool" /\ c_arg.raw = <<1>>)
        => c_res.value = BoolV(TRUE)

\* a value that does not survive exactly: 45.5 on the unscaled one-byte float
\* comes back as 46.0
C18_Witness ==
    /\ c_fn = "roundtrip"
    /\ c_arg.reg = CURRENT_HUMIDITY
    /\ c_arg.value = FloatV(455)
    /\ c_res.value = FloatV(460)

\* the unsigned integer in raw, read in the stated byte order
StatedUnsigned(raw, order) ==
    IF Len(raw) = 1 THEN raw[1]
    ELSE IF order = "little" THEN raw[1] + 256 * raw[2]
    ELSE 256 * raw[1] + raw[2]

\* C19: a float register decodes to the unsigned integer read from the raw
\* bytes in the descriptor's byte order, times the scale (1.0 when absent),
\* to one decimal place; DC 00 on a little-endian register of scale 0.1 is 22.0.
C19_FloatDecode ==
    (c_fn = "format" /\ c_arg.reg.fmt = "float")
        => /\ c_res.value.t = "float"
           /\ c_res.value.n =
                StatedUnsigned(c_arg.raw, c_arg.reg.endian)
                    * (IF c_arg.reg.has_scale THEN c_arg.reg.scale10 ELSE 10)
           /\ (c_arg.raw = <<220, 0>> /\ c_arg.reg.endian = "little" /\ c_arg.reg.has_scale)
                => c_res.value = FloatV(220)

\* DC 00 decoded on EXHAUST_IN_TEMPERATURE
C19_Witness ==
    /\ c_fn = "format"
    /\ c_arg.reg = EXHAUST_IN_TEMPERATURE
    /\ c_arg.raw = <<220, 0>>
    /\ c_res.value = FloatV(220)

-----------------------------------------------------------------------------
(* Properties of the bridge (checked under SpecBridge) *)

\* C2: at most one request is outstanding on the session at any time, in the
\* bridge too, where the command callback and the polling loop share it.
C2_OneOutstanding == Cardinality(b_wire) <= 1

\* neither thread stands between its store into LAST_STATE and its publish
BetweenPublishes == b_poll.pc # "publish" /\ b_cb.pc # "publish"

\* C23: whatever the interleaving of the polling loop and the command
\* callback, once neither is between its store and its publish, LAST_STATE
\* holds for every entity the payload last published on its state topic.
C23_CacheMatchesPublished ==
    BetweenPublishes
        => /\ DOMAIN b_last = DOMAIN b_pub
           /\ \A name \in DOMAIN b_last : b_last[name] = b_pub[name]

\* C24: one call of _read_entity_with_retries makes at most READ_RETRIES + 1
\* attempts, makes none after an attempt that succeeded and returns that
\* attempt's value, and when every attempt failed raises the error of the
\* last of them.
C24_RetryDiscipline ==
    LET t == b_poll.tries
        n == Len(t)
    IN  /\ n <= READ_RETRIES + 1
        /\ \A k \in 1..(n - 1) : t[k].err # NoErr
        /\ b_poll.pc \in {"ready", "recv"}
              => n = b_poll.attempt /\ \A k \in 1..n : t[k].err # NoErr
        /\ b_poll.pc \in {"compare", "store", "publish"}
              => n >= 1 /\ t[n].err = NoErr /\ b_poll.val = t[n].val
        /\ b_poll.pc = "raised"
              => /\ n = READ_RETRIES + 1
                 /\ \A k \in 1..n : t[k].err # NoErr
                 /\ b_poll.last_exc = t[n].err

\* every attempt failed, the last with another error than the first
C24_Witness ==
    /\ b_poll.pc = "raised"
    /\ Len(b_poll.tries) = READ_RETRIES + 1
    /\ b_poll.tries[1].err # b_poll.tries[READ_RETRIES + 1].err

\* the components _publish_discovery gives a command topic
Commanded(ent) == ent.component \in {"switch", "number", "select"}

\* every entity with a command topic is a switch, number or select on a
\* writable register
CommandedWritable ==
    \A k \in COMMAND_TOPIC_MAP :
        Commanded(ENTITIES[k]) /\ ~ENTITIES[k].register.read_only

\* on_message calls write_register on writable registers only, and not at all
\* for other topics and other components
DispatchWritable ==
    \A topic \in Topics, raw \in CommandPayloads :
        LET d == Dispatch(topic, raw)
        IN  /\ d.write => ~ENTITIES[d.ent].register.read_only
            /\ (topic = 0 \/ ~Commanded(ENTITIES[topic])) => ~d.write /\ ~d.sent

\* C25: the bridge never calls write_register on a read-only register: only
\* switch, number and select entities have a command topic, the register of
\* each of them is writable, and a message on another topic, or for a
\* binary_sensor, leads to no write.
C25_NoReadOnlyWrite ==
    /\ CommandedWritable
    /\ DispatchWritable
    /\ b_cb.pc \notin {"idle", "off"}
          => Commanded(CallbackEnt) /\ ~CallbackEnt.register.read_only

\* the callback has a write to the target temperature under way
C25_Witness ==
    /\ b_cb.pc = "recv"
    /\ CallbackEnt.name = "target_temp"
    /\ "cb" \in b_wire

====
